---------------------------- MODULE Spec2Model ----------------------------
(***************************************************************************)
(* A model of package throttler (src/throttler.go): the throttler T, the  *)
(* control loop run by Start, the decision function Allow and Stop.        *)
(*                                                                         *)
(* float64 values are modelled exactly as rationals: a value x is held as  *)
(* the integer x * Scale, Scale being a common multiple of every sample    *)
(* count, so that the mean of a window is exact.  Only finite readings and *)
(* finite configuration are modelled (no NaN, no infinities, no rounding). *)
(*                                                                         *)
(* The memory that the unsafe.Pointer t.r refers to is modelled as a heap  *)
(* of cells, a pointer being a cell's number.  A Go variable whose address *)
(* is taken gets a new cell; a cell that nothing refers to is reclaimed.   *)
(* An address is only ever compared or dereferenced, so the heap is kept   *)
(* as the sequence of the live cells, oldest first.                        *)
(*                                                                         *)
(* The random source is modelled by the section of Allow that runs inside  *)
(* rand.Float64 and by the draw that comes out of it, which is any value   *)
(* of [0, 100).                                                            *)
(***************************************************************************)
EXTENDS Integers, Sequences, FiniteSets, TLC

(***************************************************************************)
(* Bounds of the model.                                                    *)
(***************************************************************************)
\* the longest sample buffer of one evaluation window
MaxStats == 2

\* goroutines that call Start, Stop and Allow
Starters == {"s1", "s2"}
Stoppers == {"p1"}
Callers == {"a1", "a2"}

\* the readings the sampler may return (percent), and the limits and step
\* multipliers a throttler may be constructed with
Readings == {0, 20}
Limits == {10, 20}
Multipliers == {0, 2, 6}

\* the functions T.cpuUsage may hold: getCpuUsage, which New sets, and the
\* two constant samplers the tests put in its place
HostSampler == "getCpuUsage"
ZeroSampler == "return 0, nil"
TwentySampler == "return 20, nil"
TestSamplers == {ZeroSampler, TwentySampler}

\* the (float64, error) a call of the sampler may return
Outcomes(u) ==
    CASE u = ZeroSampler -> {[val |-> 0, err |-> FALSE]}
      [] u = TwentySampler -> {[val |-> 20, err |-> FALSE]}
      [] OTHER -> {[val |-> 0, err |-> TRUE]}
                  \cup {[val |-> x, err |-> FALSE] : x \in Readings}

\* the throttler of the tests: New(10, 2, ...)
TestLimit == 10
TestK == 2

(***************************************************************************)
(* Arithmetic on scaled values.                                            *)
(***************************************************************************)
RECURSIVE Gcd(_, _)
Gcd(a, b) == IF b = 0 THEN a ELSE Gcd(b, a % b)

RECURSIVE LcmUpTo(_)
LcmUpTo(n) == IF n <= 1 THEN 1 ELSE (LcmUpTo(n - 1) * n) \div Gcd(LcmUpTo(n - 1), n)

\* one unit of a float64 is Scale units of the model
Scale == LcmUpTo(MaxStats)

\* a float64 literal, reading or field, scaled
F(x) == x * Scale

\* the rate New and Start store: "var r float64 = 100.0"
FullRate == 100
Hundred == F(FullRate)

RECURSIVE Sum(_)
Sum(st) == IF st = <<>> THEN 0 ELSE Head(st) + Sum(Tail(st))

\* avg = sum / float64(len(stats)), scaled (exact: Len(st) divides Scale)
AvgOverWindow(st) == (Sum(st) * Scale) \div MaxStats
Avg(st) == (Sum(st) * Scale) \div Len(st)

\* step := t.K * (t.L - avg), avg and the result scaled
StepNegated(k, l, avg) == k * (avg - F(l))
StepUnscaled(k, l, avg) == F(l) - avg
Step(k, l, avg) == k * (F(l) - avg)

\* the switch of the evaluation tick: the newR that is stored
ClampNone(l, avg, nr) == nr
ClampSwapped(l, avg, nr) ==
    IF avg >= F(l)
        THEN (IF nr > Hundred THEN Hundred ELSE nr)
        ELSE (IF nr < 0 THEN 0 ELSE nr)
Clamp(l, avg, nr) ==
    IF avg >= F(l)
        THEN (IF nr < 0 THEN 0 ELSE nr)
        ELSE (IF nr > Hundred THEN Hundred ELSE nr)

\* the values t.rand.Float64() * 100.0 may take, the least and the greatest
\* of [0, 100) in the model's units
DrawsClosed == {0, Hundred}
Draws == {0, Hundred - 1}

\* (t.rand.Float64() * 100.0) < *(*float64)(atomic.LoadPointer(&t.r))
BelowOrEqual(draw, rate) == draw <= rate
Below(draw, rate) == draw < rate

(***************************************************************************)
(* The heap.                                                               *)
(***************************************************************************)
NoCell == 0
NilChan == "nil"
NoOwner == "none"

\* the cells something refers to: t.r, and the pointers Allow calls loaded
LiveOf(rr, pp) == ({rr} \cup {pp[a] : a \in Callers}) \ {NoCell}

\* the cell of a new float64 variable whose address escapes (var r, newR)
NewCellInPlace(cur, h) == cur
NewCell(cur, h) == Len(h) + 1

\* *c = v
Put(h, c, v) == IF c > Len(h) THEN Append(h, v) ELSE [h EXCEPT ![c] = v]

\* reclaiming the cells nothing refers to: the number a live cell has
\* afterwards, and the heap afterwards
Moved(c, live) == IF c = NoCell THEN NoCell ELSE Cardinality({d \in live : d <= c})
Collect(h, live) ==
    [i \in 1 .. Cardinality(live) |-> h[CHOOSE c \in live : Moved(c, live) = i]]

VARIABLES
    L, K,          \* T.L, T.K
    cpuUsage,      \* T.cpuUsage
    r,             \* T.r: the cell the pointer refers to
    heap,          \* the float64 held by each live cell
    started, mu,   \* T.started, and the goroutine that holds T.mu
    done,          \* T.done
    pc, stats, tickers,   \* each Start call: position, stats, itk and istk
    pcStop,        \* each Stop call: position
    pcA, ptr, res, \* each Allow call: position, loaded pointer, result
    evaluated      \* history: an evaluation tick has stored a rate since the reset

vars == <<L, K, cpuUsage, r, heap, started, mu, done, pc, stats, tickers, pcStop,
          pcA, ptr, res, evaluated>>

cfgVars == <<L, K, cpuUsage, done>>
loopVars == <<pc, stats, tickers>>
allowVars == <<pcA, ptr, res>>
cellVars == <<r, heap>>

\* the admission rate: *(*float64)(t.r)
Rate == heap[r]

\* the pointers and the heap after a step that leaves t.r = rr, the loaded
\* pointers pp and the cells h
SetCells(rr, pp, h) ==
    LET live == LiveOf(rr, pp)
    IN  /\ r' = Moved(rr, live)
        /\ ptr' = [a \in Callers |-> Moved(pp[a], live)]
        /\ heap' = Collect(h, live)

\* New: the fields it sets; done is left nil
Init ==
    /\ L \in Limits
    /\ K \in Multipliers
    /\ cpuUsage = HostSampler
    /\ r = 1
    /\ heap = <<Hundred>>
    /\ started = FALSE
    /\ mu = NoOwner
    /\ done = NilChan
    /\ pc = [s \in Starters |-> "idle"]
    /\ stats = [s \in Starters |-> <<>>]
    /\ tickers = [s \in Starters |-> "none"]
    /\ pcStop = [p \in Stoppers |-> "idle"]
    /\ pcA = [a \in Callers |-> "idle"]
    /\ ptr = [a \in Callers |-> NoCell]
    /\ res = [a \in Callers |-> "none"]
    /\ evaluated = FALSE

(***************************************************************************)
(* Start.                                                                  *)
(***************************************************************************)
IdlePcs == {"idle", "ret_err", "ret_nil"}
LoopPcs == {"select"}

\* sync.Mutex: Lock proceeds only while no goroutine holds the mutex
MuFreeAlways(m) == TRUE
MuFree(m) == m = NoOwner

\* t.mu.Lock(), of a call of Start and of its deferred function
MuLock(s) ==
    /\ pc[s] \in IdlePcs \cup {"defer"}
    /\ MuFree(mu)
    /\ mu' = s
    /\ pc' = [pc EXCEPT ![s] = IF pc[s] = "defer" THEN "defer_set" ELSE "check"]
    /\ UNCHANGED <<cfgVars, cellVars, started, stats, tickers, pcStop, allowVars,
                   evaluated>>

\* StartCheck with the deferred function registered before the check, so
\* that the failing return clears t.started
StartCheckClearing(s) ==
    /\ pc[s] = "check"
    /\ IF started
          THEN /\ mu' = NoOwner
               /\ started' = FALSE
               /\ pc' = [pc EXCEPT ![s] = "ret_err"]
          ELSE /\ pc' = [pc EXCEPT ![s] = "set"]
               /\ UNCHANGED <<mu, started>>
    /\ UNCHANGED <<cfgVars, cellVars, stats, tickers, pcStop, allowVars, evaluated>>

\* if t.started { t.mu.Unlock(); return ErrAlreadyStarted }
StartCheck(s) ==
    /\ pc[s] = "check"
    /\ IF started
          THEN /\ mu' = NoOwner
               /\ pc' = [pc EXCEPT ![s] = "ret_err"]
          ELSE /\ pc' = [pc EXCEPT ![s] = "set"]
               /\ UNCHANGED mu
    /\ UNCHANGED <<cfgVars, cellVars, started, stats, tickers, pcStop, allowVars,
                   evaluated>>

\* t.started = true; t.mu.Unlock(), and in the deferred function
\* t.started = false; t.mu.Unlock(), after which Start returns nil
SetStarted(s) ==
    /\ pc[s] \in {"set", "defer_set"}
    /\ started' = (pc[s] = "set")
    /\ mu' = NoOwner
    /\ pc' = [pc EXCEPT ![s] = IF pc[s] = "set" THEN "reset" ELSE "ret_nil"]
    /\ UNCHANGED <<cfgVars, cellVars, stats, tickers, pcStop, allowVars, evaluated>>

\* var r float64 = 100.0; atomic.StorePointer(&t.r, unsafe.Pointer(&r));
\* the two tickers and the empty stats
StartReset(s) ==
    /\ pc[s] = "reset"
    /\ LET c == NewCell(r, heap)
       IN  SetCells(c, ptr, Put(heap, c, Hundred))
    /\ tickers' = [tickers EXCEPT ![s] = "on"]
    /\ stats' = [stats EXCEPT ![s] = <<>>]
    /\ evaluated' = FALSE
    /\ pc' = [pc EXCEPT ![s] = "select"]
    /\ UNCHANGED <<cfgVars, started, mu, pcStop, pcA, res>>

\* a receive from, or a send to, a nil channel never proceeds
ChanOpen(ch) == ch # NilChan

\* the cases of the select that can proceed: a tick of either ticker may be
\* pending at any time; <-t.done needs a sender blocked in Stop
Senders == {p \in Stoppers : pcStop[p] = "send"}
ReadyCases(s) ==
    {"itk"}
    \cup (IF Len(stats[s]) < MaxStats THEN {"istk"} ELSE {})
    \cup (IF ChanOpen(done) /\ Senders # {} THEN {"done"} ELSE {})

\* case <-t.done: the sender's Stop returns, both tickers are stopped and
\* Start returns nil through its deferred function
Cancel(s) ==
    /\ \E p \in Senders : pcStop' = [pcStop EXCEPT ![p] = "returned"]
    /\ tickers' = [tickers EXCEPT ![s] = "stopped"]
    /\ pc' = [pc EXCEPT ![s] = "defer"]
    /\ UNCHANGED <<cfgVars, cellVars, started, mu, stats, allowVars, evaluated>>

\* EvalTick failing open: a window with no stats stores the full rate
EvalTickFailOpen(s) ==
    /\ LET c == NewCell(r, heap)
           newR == IF Len(stats[s]) = 0
                      THEN Hundred
                      ELSE Clamp(L, Avg(stats[s]), heap[r] + Step(K, L, Avg(stats[s])))
       IN  SetCells(c, ptr, Put(heap, c, newR))
    /\ stats' = [stats EXCEPT ![s] = <<>>]
    /\ evaluated' = TRUE
    /\ UNCHANGED <<cfgVars, started, mu, pc, tickers, pcStop, pcA, res>>

\* EvalTick with "return nil" in place of "continue" for a window with no
\* stats: the loop gives up
EvalTickFatalOnEmpty(s) ==
    IF Len(stats[s]) = 0
        THEN /\ pc' = [pc EXCEPT ![s] = "defer"]
             /\ UNCHANGED <<cfgVars, cellVars, started, mu, stats, tickers, pcStop,
                            allowVars, evaluated>>
        ELSE LET avg == Avg(stats[s])
                 c == NewCell(r, heap)
                 newR == Clamp(L, avg, heap[r] + Step(K, L, avg))
             IN  /\ SetCells(c, ptr, Put(heap, c, newR))
                 /\ stats' = [stats EXCEPT ![s] = <<>>]
                 /\ evaluated' = TRUE
                 /\ UNCHANGED <<cfgVars, started, mu, pc, tickers, pcStop, pcA, res>>

\* EvalTick without "stats = []float64{}" at its end: the readings stay
EvalTickKeepStats(s) ==
    IF Len(stats[s]) = 0
        THEN UNCHANGED vars
        ELSE LET avg == Avg(stats[s])
                 c == NewCell(r, heap)
                 newR == Clamp(L, avg, heap[r] + Step(K, L, avg))
             IN  /\ SetCells(c, ptr, Put(heap, c, newR))
                 /\ evaluated' = TRUE
                 /\ UNCHANGED <<cfgVars, started, mu, pc, stats, tickers, pcStop, pcA, res>>

\* case <-itk.C: with no stats, continue; else the average, the rate read
\* through t.r, the step, newR := r + step clamped by the switch and stored
\* through t.r, and the stats reset
EvalTick(s) ==
    IF Len(stats[s]) = 0
        THEN UNCHANGED vars
        ELSE LET avg == Avg(stats[s])
                 c == NewCell(r, heap)
                 newR == Clamp(L, avg, heap[r] + Step(K, L, avg))
             IN  /\ SetCells(c, ptr, Put(heap, c, newR))
                 /\ stats' = [stats EXCEPT ![s] = <<>>]
                 /\ evaluated' = TRUE
                 /\ UNCHANGED <<cfgVars, started, mu, pc, tickers, pcStop, pcA, res>>

\* the stats after a sample tick whose sampler call returned out: on an error
\* the tick continues, else the reading is appended
SampleResultReset(st, out) == IF out.err THEN <<>> ELSE Append(st, out.val)
SampleResult(st, out) == IF out.err THEN st ELSE Append(st, out.val)

\* case <-istk.C: cpuUsage, err := t.cpuUsage() and what follows
SampleTick(s) ==
    /\ \E out \in Outcomes(cpuUsage) :
          stats' = [stats EXCEPT ![s] = SampleResult(stats[s], out)]
    /\ UNCHANGED <<cfgVars, cellVars, started, mu, pc, tickers, pcStop, allowVars,
                   evaluated>>

\* for { select { ... } }: one of the cases that can proceed is taken
Select(s) ==
    /\ pc[s] = "select"
    /\ \E c \in ReadyCases(s) :
          CASE c = "done" -> Cancel(s)
            [] c = "itk" -> EvalTick(s)
            [] OTHER -> SampleTick(s)

(***************************************************************************)
(* Stop.                                                                   *)
(***************************************************************************)
\* StopCall clearing t.started itself, without waiting for the loop
StopCallClearing(p) ==
    /\ pcStop[p] \in {"idle", "returned"}
    /\ pcStop' = [pcStop EXCEPT ![p] = "send"]
    /\ started' = FALSE
    /\ UNCHANGED <<cfgVars, cellVars, mu, loopVars, allowVars, evaluated>>

\* t.done <- struct{}{}: the call blocks in the send until a receiver takes
\* the value (the done case of Select)
StopCall(p) ==
    /\ pcStop[p] \in {"idle", "returned"}
    /\ pcStop' = [pcStop EXCEPT ![p] = "send"]
    /\ UNCHANGED <<cfgVars, cellVars, started, mu, loopVars, allowVars, evaluated>>

(***************************************************************************)
(* Allow.                                                                  *)
(***************************************************************************)
\* t.rand.Float64() is entered: T.rand is a *rand.Rand over a plain source,
\* which Float64 reads and writes with no lock
AllowRandEnter(a) ==
    /\ pcA[a] \in {"idle", "ret"}
    /\ pcA' = [pcA EXCEPT ![a] = "rand"]
    /\ res' = [res EXCEPT ![a] = "none"]
    /\ UNCHANGED <<cfgVars, cellVars, started, mu, loopVars, pcStop, ptr, evaluated>>

\* t.rand.Float64() returns; atomic.LoadPointer(&t.r)
AllowLoad(a) ==
    /\ pcA[a] = "rand"
    /\ ptr' = [ptr EXCEPT ![a] = r]
    /\ pcA' = [pcA EXCEPT ![a] = "deref"]
    /\ UNCHANGED <<cfgVars, cellVars, started, mu, loopVars, pcStop, res, evaluated>>

\* the dereference, the comparison with the draw d that Float64 returned (any
\* draw: nothing between Float64 and here reads it) and the return
AllowReturn(a) ==
    /\ pcA[a] = "deref"
    /\ \E d \in Draws :
          res' = [res EXCEPT ![a] = IF Below(d, heap[ptr[a]]) THEN "true" ELSE "false"]
    /\ SetCells(r, [ptr EXCEPT ![a] = NoCell], heap)
    /\ pcA' = [pcA EXCEPT ![a] = "ret"]
    /\ UNCHANGED <<cfgVars, started, mu, loopVars, pcStop, evaluated>>

(***************************************************************************)
(* The specifications.                                                     *)
(***************************************************************************)
StartNext(s) ==
    \/ MuLock(s)
    \/ StartCheck(s)
    \/ SetStarted(s)
    \/ StartReset(s)
    \/ Select(s)

AllowNext(a) ==
    \/ AllowRandEnter(a)
    \/ AllowLoad(a)
    \/ AllowReturn(a)

Next ==
    \/ \E s \in Starters : StartNext(s)
    \/ \E p \in Stoppers : StopCall(p)
    \/ \E a \in Callers : AllowNext(a)

Spec == Init /\ [][Next]_vars

\* the Go scheduler: a goroutine that can take a step eventually takes one
Fairness ==
    /\ \A s \in Starters : WF_vars(StartNext(s))
    /\ \A p \in Stoppers : WF_vars(StopCall(p))
    /\ \A a \in Callers : WF_vars(AllowNext(a))

FairSpec == Spec /\ Fairness

\* the throttler as the tests set it up: th := New(10, 2, ...) and th.cpuUsage
\* replaced by a constant sampler before anything is started
TestInit ==
    /\ L = TestLimit
    /\ K = TestK
    /\ cpuUsage \in TestSamplers
    /\ r = 1
    /\ heap = <<Hundred>>
    /\ started = FALSE
    /\ mu = NoOwner
    /\ done = NilChan
    /\ pc = [s \in Starters |-> "idle"]
    /\ stats = [s \in Starters |-> <<>>]
    /\ tickers = [s \in Starters |-> "none"]
    /\ pcStop = [p \in Stoppers |-> "idle"]
    /\ pcA = [a \in Callers |-> "idle"]
    /\ ptr = [a \in Callers |-> NoCell]
    /\ res = [a \in Callers |-> "none"]
    /\ evaluated = FALSE

TestSpec == TestInit /\ [][Next]_vars
FairTestSpec == TestSpec /\ Fairness


(***************************************************************************)
(* The claims.                                                             *)
(***************************************************************************)
Active(s) == pc[s] \in {"set", "reset", "defer", "defer_set"} \cup LoopPcs
Running == \E s \in Starters : pc[s] \in LoopPcs
AllBelow(st, l) == \A i \in 1 .. Len(st) : st[i] < l
AllAtOrAbove(st, l) == \A i \in 1 .. Len(st) : st[i] >= l
\* the step of Start call s that handles an evaluation tick
EvalStep(s) == pc[s] = "select" /\ EvalTick(s)
\* the step of Allow call a that reads the rate and returns
ReturnStep(a) == pcA[a] = "deref" /\ pcA'[a] = "ret"

\* C1: in every reachable state the admission rate that t.r refers to is
\* within [0, 100], for every limit, multiplier >= 0 and sequence of readings.
C1_RateInRange == Rate >= 0 /\ Rate <= Hundred
\* an evaluation tick has brought the rate down to the floor
C1_Witness == evaluated /\ K = 6 /\ Rate = 0

\* C2: at most one Start call at a time has passed the check-and-set of
\* t.started, so at most one is in the event loop; a call that checks the
\* flag while it is set returns ErrAlreadyStarted, one that finds it clear
\* goes on to set it.
C2_OneLoop ==
    /\ [](Cardinality({s \in Starters : Active(s)}) <= 1)
    /\ [][\A s \in Starters :
             (pc[s] = "check" /\ pc'[s] # "check")
                 => pc'[s] = (IF started THEN "ret_err" ELSE "set")]_vars
\* one call is in the event loop and another has returned ErrAlreadyStarted
C2_Witness ==
    \E s, t \in Starters : pc[s] \in LoopPcs /\ pc[t] = "ret_err"

\* C3: when Stop is called while the control loop runs, the cancellation is
\* eventually delivered: Stop returns, both tickers are stopped, Start
\* returns nil and t.started is cleared.
C3_StopDelivered ==
    \A p \in Stoppers :
        (pcStop[p] = "send" /\ Running)
            ~> (/\ pcStop[p] = "returned"
                /\ ~started
                /\ \E s \in Starters : pc[s] = "ret_nil" /\ tickers[s] = "stopped")

\* C4: once a Stop call issued against a running loop has returned, a Start
\* call invoked afterwards does not fail with ErrAlreadyStarted: it enters a
\* fresh cycle, with the rate reset to 100 and an empty sample buffer.
C4_RestartAfterStop ==
    \A p \in Stoppers :
        (pcStop[p] = "send" /\ Running)
            ~> (/\ pcStop[p] = "returned"
                /\ \E s \in Starters :
                      /\ pc[s] = "select"
                      /\ tickers[s] = "on"
                      /\ stats[s] = <<>>
                      /\ Rate = Hundred
                      /\ ~evaluated)

\* C5: an Allow call that reads a rate of exactly 100 returns true whatever
\* the draw; so does every Allow call that returns after New or after the
\* reset of Start and before an evaluation tick has stored a rate.
C5_AllowAtFullRate ==
    [][\A a \in Callers :
          ReturnStep(a)
              => /\ heap[ptr[a]] = Hundred => res'[a] = "true"
                 /\ ~evaluated => res'[a] = "true"]_vars
\* an Allow call has returned true while the loop runs, before any evaluation
C5_Witness ==
    \E a \in Callers : res[a] = "true" /\ ~evaluated /\ Running

\* C6: no two Allow calls are inside the random source (rand.Float64, which
\* reads and writes the source's state with no synchronization) at once.
C6_RandExclusive == Cardinality({a \in Callers : pcA[a] = "rand"}) <= 1

\* C7: the cell behind a pointer that an Allow call has loaded from t.r is
\* never modified, so the value the call reads is the complete value that was
\* published, the initial 100 or the clamped result of an evaluation tick.
C7_PublishedCellImmutable ==
    [][\A a \in Callers :
          /\ (pcA[a] = "deref" /\ pcA'[a] = "deref")
                => heap'[ptr'[a]] = heap[ptr[a]]
          /\ ReturnStep(a) => (heap[ptr[a]] >= 0 /\ heap[ptr[a]] <= Hundred)]_vars
\* an Allow call holds the pointer it loaded while t.r already refers to a
\* newer cell with another value
C7_Witness ==
    \E a \in Callers : pcA[a] = "deref" /\ ptr[a] # r /\ heap[ptr[a]] # Rate

\* C8: an evaluation tick whose buffered readings are all below L leaves the
\* rate greater than or equal to the rate before it, and at most 100.
C8_UnderLimitMonotone ==
    [][\A s \in Starters :
          (EvalStep(s) /\ AllBelow(stats[s], L))
              => (Rate' >= Rate /\ Rate' <= Hundred)]_vars
\* with K = 6 the rate 60 only arises as 0 + 60, a rise from the floor
C8_Witness == evaluated /\ K = 6 /\ Rate = F(60)

\* C9: an evaluation tick whose buffered readings are all at or above L
\* leaves the rate less than or equal to the rate before it, and at least 0.
C9_OverLimitMonotone ==
    [][\A s \in Starters :
          (EvalStep(s) /\ AllAtOrAbove(stats[s], L))
              => (Rate' <= Rate /\ Rate' >= 0)]_vars
\* with K = 6 the rate 40 only arises as 100 - 60, a fall from the full rate
C9_Witness == evaluated /\ K = 6 /\ Rate = F(40)

\* C10: an evaluation tick that finds the sample buffer empty leaves the rate
\* (and the cell t.r refers to) as it was, and the loop goes back to its
\* select.
C10_EmptyWindowKeepsRate ==
    [][\A s \in Starters :
          (EvalStep(s) /\ stats[s] = <<>>)
              => (Rate' = Rate /\ pc'[s] = "select" /\ UNCHANGED <<started, stats>>)]_vars
\* an evaluation tick fires on an empty buffer after the rate was lowered
C10_Witness ==
    \E s \in Starters : pc[s] = "select" /\ stats[s] = <<>> /\ evaluated /\ Rate < Hundred

\* the rates the claim lists for limit 10, K 2 and a constant reading of 20
Descent == <<100, 80, 60, 40, 20, 0>>
NextInDescent(i) == IF i < Len(Descent) THEN i + 1 ELSE i

\* C11: with limit 10, K 2 and a sampler that always returns 20, the rate is
\* 100 until an evaluation tick has stored one, and every evaluation tick
\* that finds a non-empty buffer moves the rate to the next of 100, 80, 60,
\* 40, 20, 0, staying at 0 once it is there.
C11_LinearDescent ==
    /\ []((cpuUsage = TwentySampler /\ ~evaluated) => Rate = Hundred)
    /\ [][\A s \in Starters :
             (cpuUsage = TwentySampler /\ EvalStep(s) /\ stats[s] # <<>>)
                 => \E i \in 1 .. Len(Descent) :
                       /\ Rate = F(Descent[i])
                       /\ Rate' = F(Descent[NextInDescent(i)])]_vars
\* the rate has come down to 0 and the next window already holds readings
C11_Witness ==
    /\ cpuUsage = TwentySampler
    /\ Rate = 0
    /\ \E s \in Starters : pc[s] = "select" /\ stats[s] # <<>>

\* C12: with limit 10, K 2 and a sampler that always returns 0, the rate (and
\* every cell an Allow call may still hold) is 100 in every state, and no
\* Allow call returns false.
C12_NoThrottle ==
    cpuUsage = ZeroSampler
        => /\ \A c \in 1 .. Len(heap) : heap[c] = Hundred
           /\ \A a \in Callers : res[a] # "false"
\* an Allow call has returned true after an evaluation tick stored a rate
C12_Witness ==
    /\ cpuUsage = ZeroSampler
    /\ evaluated
    /\ \E a \in Callers : pcA[a] = "ret" /\ res[a] = "true"

\* C13: with limit 10, K 2 and a sampler that always returns 20, an Allow
\* caller that makes its first call after an evaluation tick has stored a rate
\* never gets true.
C13_ThrottledAfterFirstWindow ==
    \A a \in Callers :
        []((cpuUsage = TwentySampler /\ evaluated /\ pcA[a] = "idle")
              => [](res[a] # "true"))

\* a step of Start call s on its way to ErrAlreadyStarted: taking the mutex,
\* and the check that finds t.started set
FailingStartStep(s) ==
    \/ pc[s] \in IdlePcs /\ pc'[s] = "check"
    \/ pc[s] = "check" /\ pc'[s] = "ret_err"

\* C14: a Start call that returns ErrAlreadyStarted changes nothing: its
\* steps leave the rate and the cell t.r refers to, t.started (which is set),
\* and every other Start call's position, sample buffer and tickers as they
\* were.
C14_FailedStartChangesNothing ==
    [][\A s \in Starters :
          /\ FailingStartStep(s)
                => /\ UNCHANGED <<r, heap, started, stats, tickers, evaluated>>
                   /\ \A t \in Starters \ {s} : pc'[t] = pc[t]
          /\ (pc[s] = "check" /\ pc'[s] = "ret_err") => started']_vars
\* a Start call has failed while the running loop has a lowered rate and a
\* partly filled buffer
C14_Witness ==
    \E s, t \in Starters :
        /\ pc[t] = "ret_err"
        /\ pc[s] = "select" /\ tickers[s] = "on" /\ stats[s] # <<>>
        /\ started /\ Rate < Hundred

Max(x, y) == IF x >= y THEN x ELSE y
Min(x, y) == IF x <= y THEN x ELSE y
\* the readings of a buffer added up
RECURSIVE Total(_, _)
Total(st, n) == IF n = 0 THEN 0 ELSE Total(st, n - 1) + st[n]

\* C15: an evaluation tick with n > 0 buffered readings of total t, so of mean
\* t/n, that reads the rate R writes max(0, R + K*(L - t/n)) when t/n >= L
\* and min(100, R + K*(L - t/n)) when t/n < L (both sides times n here, so
\* that no division is needed).
C15_ClampedStep ==
    [][\A s \in Starters :
          (EvalStep(s) /\ stats[s] # <<>>)
              => LET n == Len(stats[s])
                     t == Total(stats[s], n)
                     raw == n * Rate + K * (n * L - t) * Scale
                 IN  n * Rate' = IF t >= n * L
                                    THEN Max(0, raw)
                                    ELSE Min(n * FullRate * Scale, raw)]_vars
\* the mean of the next window equals the limit while the rate is neither 0
\* nor 100
C15_Witness ==
    /\ evaluated /\ Rate > 0 /\ Rate < Hundred
    /\ \E s \in Starters :
          /\ pc[s] = "select" /\ stats[s] # <<>>
          /\ Total(stats[s], Len(stats[s])) = Len(stats[s]) * L

\* the step of Start call s that handles a sample tick
SampleStep(s) == pc[s] = "select" /\ SampleTick(s)

C17_WindowCleared ==
    [][\A s \in Starters :
          /\ (EvalStep(s) /\ stats[s] # <<>>) => stats'[s] = <<>>
          /\ (pc[s] = "reset" /\ pc'[s] = "select") => stats'[s] = <<>>
          /\ (stats'[s] # stats[s] /\ stats'[s] # <<>>)
                => /\ SampleStep(s)
                   /\ SubSeq(stats'[s], 1, Len(stats[s])) = stats[s]]_vars
\* a window of readings 20 has lowered the rate from 100 to 40, and the
\* buffer of the next window holds a single 0
C17_Witness ==
    /\ K = 6 /\ L = 10 /\ Rate = F(40)
    /\ \E s \in Starters : pc[s] = "select" /\ stats[s] = <<0>>

\* the step in which Start call s receives the value a Stop call sends
ReceiveStep(s) ==
    /\ ChanOpen(done)
    /\ \E p \in Stoppers : pcStop[p] = "send" /\ pcStop'[p] = "returned"
    /\ pc[s] = "select" /\ pc'[s] = "defer"

\* C18: a Start call leaves the event loop only in the step that receives the
\* cancellation; sample and evaluation ticks keep it in the loop with its
\* tickers running and t.started set, and t.started is set whenever a call is
\* in the loop and is cleared only by the deferred function of a call that
\* left the loop.
C18_ExitOnlyByCancel ==
    /\ [](Running => started)
    /\ [][\A s \in Starters :
             /\ (pc[s] = "select" /\ pc'[s] # "select") => ReceiveStep(s)
             /\ (SampleStep(s) \/ EvalStep(s))
                   => (pc'[s] = "select" /\ tickers'[s] = "on" /\ started')
             /\ (started /\ ~started') => \E t \in Starters : pc[t] = "defer_set"]_vars
\* the loop is still running, with an empty window, after it has adjusted the
\* rate down to 0, while a Stop call is waiting
C18_Witness ==
    /\ started /\ evaluated /\ Rate = 0
    /\ \E s \in Starters : pc[s] = "select" /\ tickers[s] = "on" /\ stats[s] = <<>>
    /\ \E p \in Stoppers : pcStop[p] = "send"

\* a step of Allow call a, and a step of Stop call p
AllowStep(a) == pcA'[a] # pcA[a]
StopStep(p) == pcStop'[p] # pcStop[p]
\* a step of Allow, of Stop or of a Start call on its way to ErrAlreadyStarted
OutsideStep ==
    \/ \E a \in Callers : AllowStep(a)
    \/ \E p \in Stoppers : StopStep(p)
    \/ \E s \in Starters : FailingStartStep(s)
\* a step of the control loop that writes the rate: the reset of the
\* activation, or an evaluation tick that found readings
RateWrite(s) ==
    \/ pc[s] = "reset" /\ pc'[s] = "select"
    \/ EvalStep(s) /\ stats[s] # <<>>

\* C19 as stated: steps of Allow, of Stop, of a failing Start call and sample
\* ticks all leave the rate, t.started and the sample buffers unchanged.
C19_AsStated ==
    [][(OutsideStep \/ \E s \in Starters : SampleStep(s))
          => (Rate' = Rate /\ started' = started /\ stats' = stats)]_vars

\* C19, amended: the rate changes only in the reset of an activation or in an
\* evaluation tick that found readings; steps of Allow, of Stop and of a
\* failing Start call leave the rate, t.started and the sample buffers
\* unchanged; a sample tick leaves the rate and t.started unchanged.
C19_RateWrittenByLoopOnly ==
    [][/\ Rate' # Rate => \E s \in Starters : RateWrite(s)
       /\ OutsideStep => (Rate' = Rate /\ started' = started /\ stats' = stats)
       /\ (\E s \in Starters : SampleStep(s))
             => (Rate' = Rate /\ started' = started)]_vars
\* Allow has returned, Stop is waiting and a Start call has failed while the
\* loop holds readings and a rate that is neither 0 nor 100
C19_Witness ==
    /\ started /\ Rate > 0 /\ Rate < Hundred
    /\ \E a \in Callers : pcA[a] = "ret"
    /\ \E p \in Stoppers : pcStop[p] = "send"
    /\ \E s, t \in Starters : pc[t] = "ret_err" /\ pc[s] = "select" /\ stats[s] # <<>>

\* C20: an Allow call that reads a rate of exactly 0 returns false whatever
\* the draw, and a rate of 0 is left only by an evaluation tick whose readings
\* have a mean below L.
C20_NoAdmissionAtZero ==
    [][/\ \A a \in Callers :
             (ReturnStep(a) /\ heap[ptr[a]] = 0) => res'[a] = "false"
       /\ (Rate = 0 /\ Rate' # 0)
             => \E s \in Starters :
                   /\ EvalStep(s) /\ stats[s] # <<>>
                   /\ Total(stats[s], Len(stats[s])) < Len(stats[s]) * L]_vars
\* while the rate is 0 one Allow call has returned false and another has
\* loaded the pointer to the 0
C20_Witness ==
    /\ Rate = 0
    /\ \E a, b \in Callers :
          /\ pcA[a] = "ret" /\ res[a] = "false"
          /\ pcA[b] = "deref" /\ heap[ptr[b]] = 0

=============================================================================
